---- MODULE Spec2Model ----
(***************************************************************************)
(* restore-symlink (src/src/main.rs): a command line tool that walks a    *)
(* file or a directory tree and replaces every small text file whose      *)
(* content is an existing path by a symlink to that path.                 *)
(*                                                                         *)
(* The program is sequential.  Its state is the filesystem, the parsed    *)
(* arguments, the position in main / convert_dir / convert_file, the      *)
(* recursion stack of convert_dir and what was printed.  Every filesystem *)
(* call returns a Result: besides the errors the filesystem state decides *)
(* (ENOENT, EEXIST, ...), a call may fail for a reason outside the        *)
(* program (EIO, ENOMEM, a concurrent change).  Such failures are drawn   *)
(* nondeterministically, at most MaxFaults of them in a behaviour.        *)
(***************************************************************************)
EXTENDS Integers, Sequences, FiniteSets, TLC

(* ------------------------------ bounds -------------------------------- *)
\* failures of filesystem calls that the filesystem state does not explain
MaxFaults == 2
\* bytes other than y/Y/n/N answered to one prompt
MaxJunk == 1
\* runs of the program on the same tree (specification SpecTwice)
MaxRuns == 2

(* ------------------------- paths and file text ------------------------ *)
\* File content, symlink targets and path components are byte strings,
\* modelled as sequences of one-character strings.
A == <<"a">>
AN == <<"a", "\n">>
L == <<"l">>
D == <<"d">>
S == <<"s">>
\* the component a trailing separator stands for ("d/" names d as a directory)
DOT == <<".">>

\* Texts that occur as file content.
Contents ==
  { <<"a">>, <<"a", "\n">>, <<>>, <<"d", "/", "l">> }

\* A path (std::path::Path): absolute or relative, and its components.
MkPath(abs, comps) == [abs |-> abs, comps |-> comps]
EmptyPath == MkPath(FALSE, <<>>)
RootDir == MkPath(TRUE, <<>>)

RECURSIVE SplitFrom(_, _, _)
\* the components of text[i..], cur being the component read so far
SplitFrom(text, i, cur) ==
  IF i > Len(text)
    THEN IF cur = <<>> THEN <<>> ELSE <<cur>>
    ELSE IF text[i] = "/"
      THEN (IF cur = <<>> THEN <<>> ELSE <<cur>>) \o SplitFrom(text, i + 1, <<>>)
      ELSE SplitFrom(text, i + 1, Append(cur, text[i]))

\* Path::new(text): repeated separators collapse, a trailing separator
\* asks for a directory.
ParsePath(text) ==
  LET abs == text # <<>> /\ text[1] = "/"
      comps == SplitFrom(text, 1, <<>>)
      slash == text # <<>> /\ text[Len(text)] = "/" /\ comps # <<>>
  IN MkPath(abs, IF slash THEN Append(comps, DOT) ELSE comps)

\* Path::join(base, text): an absolute text replaces base; otherwise text is
\* pushed after a separator (an empty base gets no separator).
JoinText(base, text) ==
  LET p == ParsePath(text)
  IN IF p.abs THEN p
     ELSE IF base = EmptyPath THEN p
     ELSE MkPath(base.abs,
                 base.comps \o (IF text = <<>> THEN <<DOT>> ELSE p.comps))

\* DirEntry::path(): the directory's path joined with the entry's name.
EntryPath(dir, name) == MkPath(dir.abs, Append(dir.comps, name))

\* Path::parent(): <<p>> for Some(p), <<>> for None.
Parent(path) ==
  IF path.comps = <<>> THEN <<>>
  ELSE <<MkPath(path.abs, SubSeq(path.comps, 1, Len(path.comps) - 1))>>

(* ----------------------------- filesystem ----------------------------- *)
\* A node is named by the components leading to it from the root directory,
\* which is also the working directory of the process.
Nodes ==
  { <<>>, <<A>>, <<AN>>, <<L>>, <<D>>, <<S>>, <<D, L>> }

NoNode == <<DOT>>

Absent == [kind |-> "none", data |-> <<>>]
Dir == [kind |-> "dir", data |-> <<>>]
Other == [kind |-> "other", data |-> <<>>]
File(text) == [kind |-> "file", data |-> text]
Symlink(text) == [kind |-> "symlink", data |-> text]

VARIABLES
  fs,        \* the filesystem: node -> [kind, data]
  args,      \* the parsed Args
  pc,        \* where the program is
  stack,     \* convert_dir activations: [dir, node, rest]
  curPath,   \* the path convert_dir / convert_file was called with
  linkVal,   \* link_val of convert_file
  junk,      \* bytes answered to the current prompt that were not y/Y/n/N
  out,       \* the lines the current run printed to standard output
  faults,    \* failures injected so far
  panicked,  \* which unwrap() panicked, or "none"
  run,       \* number of the current run
  fs0,       \* history: the filesystem the first run started on
  ops,       \* history: remove_file / symlink calls, in order
  handed,    \* history: the calls of convert_file, [path, run]
  listed,    \* history: the calls of convert_dir, [path, run]
  again,     \* history: the calls made more than once
  ltIn,      \* link_target_exists called on its own: the arguments
  ltOut      \* ... and the result

vars ==
  << fs, args, pc, stack, curPath, linkVal, junk, out, faults, panicked, run,
     fs0, ops, handed, listed, again, ltIn, ltOut >>

KindAt(f, n) == IF n \in DOMAIN f THEN f[n].kind ELSE "none"

\* symlinks followed in one resolution before the kernel gives up (ELOOP)
MaxFollow == 40

RECURSIVE Walk(_, _, _, _)
\* The node that `rest` names from directory node cur, following symlinks
\* (stat semantics), or NoNode.
Walk(f, cur, rest, fuel) ==
  IF rest = <<>> THEN cur
  ELSE IF Head(rest) = DOT THEN Walk(f, cur, Tail(rest), fuel)
  ELSE
    LET child == Append(cur, Head(rest))
        kind == KindAt(f, child)
    IN CASE kind = "none" -> NoNode
         [] kind = "dir" -> Walk(f, child, Tail(rest), fuel)
         [] kind = "symlink" ->
              LET t == ParsePath(f[child].data)
              IN IF fuel = 0 \/ f[child].data = <<>> THEN NoNode
                 ELSE Walk(f, IF t.abs THEN <<>> ELSE cur,
                           t.comps \o Tail(rest), fuel - 1)
         [] OTHER -> IF Tail(rest) = <<>> THEN child ELSE NoNode

\* stat(path): the node path resolves to, or NoNode.  "" names nothing.
Resolve(f, path) ==
  IF path = EmptyPath THEN NoNode ELSE Walk(f, <<>>, path.comps, MaxFollow)

\* lstat(path): the node of the entry itself, its last component not followed.
LNode(f, path) ==
  IF path.comps = <<>> THEN Resolve(f, path)
  ELSE
    LET d == Walk(f, <<>>, SubSeq(path.comps, 1, Len(path.comps) - 1), MaxFollow)
    IN IF d = NoNode \/ KindAt(f, d) # "dir" THEN NoNode
       ELSE Append(d, path.comps[Len(path.comps)])

\* Path::exists()
Exists(f, path) == Resolve(f, path) # NoNode

\* the names read_dir lists in directory node d
ChildNames(f, d) ==
  { n[Len(n)] : n \in { m \in DOMAIN f :
                          /\ Len(m) = Len(d) + 1
                          /\ SubSeq(m, 1, Len(d)) = d
                          /\ f[m].kind # "none" } }

\* Metadata::len()
FileLen(f, n) == Len(f[n].data)

(* ------------------------------ messages ------------------------------ *)
\* a printed line: what it says, about which path, the text, error reason and
\* numbers it quotes
Msg(kind, path, text, reason, x, y) ==
  [kind |-> kind, path |-> path, text |-> text, reason |-> reason, x |-> x, y |-> y]
\* print_error(path, reason)
ErrorMsg(path, reason) == Msg("Cannot convert", path, <<>>, reason, 0, 0)

(* ------------------------- link_target_exists ------------------------- *)
link_target_exists_either(f, parent, link) ==
  \/ parent # <<>> /\ Exists(f, JoinText(parent[1], link))
  \/ Exists(f, ParsePath(link))

\* lines 42-47
link_target_exists(f, parent, link) ==
  IF parent # <<>>
    THEN Exists(f, JoinText(parent[1], link))
    ELSE Exists(f, ParsePath(link))

(* ------------------------------- start -------------------------------- *)
\* --len values tried: the files here hold 0 to 3 bytes, so that some exceed
\* it and some do not (the default, 512, is larger than all of them)
LenArgs == {1}

\* Args::parse(): --silent and --verbose conflict (line 34).
ArgsSet ==
  { a \in [ path : {RootDir, MkPath(FALSE, <<L>>), MkPath(FALSE, <<S>>)},
            recursive : BOOLEAN, silent : BOOLEAN, interactive : BOOLEAN,
            len : LenArgs, verbose : BOOLEAN ] :
      ~(a.silent /\ a.verbose) }

\* The trees the program is started on: a candidate l, a directory d holding
\* a candidate l, and either a target file named "a" and a symlink s to d, or
\* a target file named "a\n" and a socket s.
InitialTrees ==
  { [ n \in Nodes |->
        CASE n = <<>> -> Dir
          [] n = <<D>> -> Dir
          [] n = <<L>> -> File(c)
          [] n = <<D, L>> -> File(<<"/", "a">>)
          [] n = <<S>> -> IF t = A THEN Symlink(<<"d">>) ELSE Other
          [] n = <<t>> -> File(<<"x">>)
          [] OTHER -> Absent ] :
      t \in {A, AN}, c \in Contents }

NoCall == [parent |-> <<>>, link |-> <<>>]

Start(tree, a, at) ==
  /\ fs = tree
  /\ args = a
  /\ pc = at
  /\ stack = <<>>
  /\ curPath = EmptyPath
  /\ linkVal = <<>>
  /\ junk = 0
  /\ out = <<>>
  /\ faults = 0
  /\ panicked = "none"
  /\ run = 1
  /\ fs0 = tree
  /\ ops = <<>>
  /\ handed = {}
  /\ listed = {}
  /\ again = {}
  /\ ltIn = NoCall
  /\ ltOut = FALSE

Init == \E tree \in InitialTrees, a \in ArgsSet : Start(tree, a, "main")

(* ------------------------------ helpers ------------------------------- *)
\* whether the next filesystem call may fail for an outside reason
FaultChoices == IF faults < MaxFaults THEN BOOLEAN ELSE {FALSE}
Bump(fault) == IF fault THEN faults + 1 ELSE faults

\* where control goes when convert_file or convert_dir returns
AfterCall(stk) == IF stk = <<>> THEN "done" ELSE "next_entry"

\* a recorded call: remove_file, symlink, or an accepted answer and its byte
Op(op, path, ok, byte) ==
  [op |-> op, path |-> path, ok |-> ok, byte |-> byte, run |-> run]
Call(path) == [path |-> path, run |-> run]

(* -------------------------------- main -------------------------------- *)
MainDescendsAlways(isDir, recursive) == isDir

\* main, lines 149-157: a directory is walked only with --recursive
MainDescends(isDir, recursive) == isDir /\ recursive

Main ==
  /\ pc = "main"
  /\ \E fault \in FaultChoices :
       LET n == Resolve(fs, args.path)
           kind == KindAt(fs, n)
           err == fault \/ n = NoNode
           walk == ~err /\ MainDescends(kind = "dir", args.recursive)
           file == ~err /\ kind = "file"
       IN /\ faults' = Bump(fault)
          /\ pc' = IF walk THEN "read_dir" ELSE IF file THEN "cf_metadata" ELSE "done"
          /\ curPath' = IF walk \/ file THEN args.path ELSE curPath
          /\ listed' = IF walk THEN listed \cup {Call(args.path)} ELSE listed
          /\ handed' = IF file THEN handed \cup {Call(args.path)} ELSE handed
          /\ again' = IF (walk \/ file) /\ Call(args.path) \in listed \cup handed
                        THEN again \cup {Call(args.path)} ELSE again
          /\ out' =
               IF err
                 THEN Append(out, ErrorMsg(args.path, IF fault THEN "EIO" ELSE "ENOENT"))
               ELSE IF walk \/ file THEN out
               ELSE IF kind = "dir"
                 THEN Append(out, ErrorMsg(args.path, "Is a directory. Please specify 'recursive' flag"))
               ELSE Append(out, ErrorMsg(args.path, "Not a directory or file"))
  /\ UNCHANGED << fs, args, stack, linkVal, junk, panicked, run, fs0, ops, ltIn, ltOut >>

(* ----------------------------- convert_dir ---------------------------- *)
ReadDir ==
  /\ pc = "read_dir"
  /\ \E fault \in FaultChoices :
       LET n == Resolve(fs, curPath)
           ok == ~fault /\ KindAt(fs, n) = "dir"
       IN /\ faults' = Bump(fault)
          /\ stack' = IF ok
                        THEN <<[dir |-> curPath, node |-> n, rest |-> ChildNames(fs, n)]>> \o stack
                        ELSE stack
          /\ out' = IF ok THEN out
                    ELSE Append(out, ErrorMsg(curPath, IF fault THEN "EIO" ELSE "ENOTDIR"))
          /\ pc' = IF ok THEN "next_entry" ELSE AfterCall(stack)
  /\ UNCHANGED << fs, args, curPath, linkVal, junk, panicked, run, fs0, ops, handed, listed, again, ltIn, ltOut >>

EntryKindFollowing(f, dirNode, name) ==
  KindAt(f, Walk(f, dirNode, <<name>>, MaxFollow))

\* entry.metadata(), line 118: the entry itself, a symlink not followed
EntryKind(f, dirNode, name) == KindAt(f, Append(dirNode, name))

\* fs::read_link(&path).unwrap_or_default(), line 129
ReadLinkOrDefault(f, node, fault) == IF fault THEN <<>> ELSE f[node].data

EntryOk ==
  /\ pc = "next_entry"
  /\ stack # <<>>
  /\ \E name \in Head(stack).rest, fault \in FaultChoices, fault2 \in FaultChoices :
       LET top == Head(stack)
           path == EntryPath(top.dir, name)
           node == Append(top.node, name)
           kind == EntryKind(fs, top.node, name)
           panic == fault \/ kind = "none"
           isDir == ~panic /\ kind = "dir"
           isFile == ~panic /\ kind = "file"
           isLink == ~panic /\ kind = "symlink"
       IN /\ fault2 => (isLink /\ args.verbose)
          /\ faults' = Bump(fault \/ fault2)
          /\ stack' = <<[top EXCEPT !.rest = @ \ {name}]>> \o Tail(stack)
          /\ panicked' = IF panic THEN "entry_metadata" ELSE panicked
          /\ pc' = IF panic THEN "panicked"
                   ELSE IF isDir THEN "read_dir"
                   ELSE IF isFile THEN "cf_metadata"
                   ELSE "next_entry"
          /\ curPath' = IF isDir \/ isFile THEN path ELSE curPath
          /\ listed' = IF isDir THEN listed \cup {Call(path)} ELSE listed
          /\ handed' = IF isFile THEN handed \cup {Call(path)} ELSE handed
          /\ again' = IF (isDir \/ isFile) /\ Call(path) \in listed \cup handed
                        THEN again \cup {Call(path)} ELSE again
          /\ out' =
               IF panic \/ isDir \/ isFile THEN out
               ELSE IF isLink
                 THEN IF args.verbose
                        THEN Append(out, Msg("Skipped symlink", path,
                                             ReadLinkOrDefault(fs, node, fault2), "", 0, 0))
                        ELSE out
               ELSE Append(out, ErrorMsg(path, "Not a directory or a file or a symlink"))
  /\ UNCHANGED << fs, args, linkVal, junk, run, fs0, ops, ltIn, ltOut >>

\* The directory iterator yields Err (line 136).  The loop goes on; whether
\* the iterator has more to yield after an error is the library's choice.
EntryErr ==
  /\ pc = "next_entry"
  /\ stack # <<>>
  /\ faults < MaxFaults
  /\ \E ends \in BOOLEAN :
       LET top == Head(stack)
       IN /\ ends => top.rest # {}
          /\ stack' = <<[top EXCEPT !.rest = IF ends THEN {} ELSE @]>> \o Tail(stack)
          /\ out' = Append(out, ErrorMsg(top.dir, "EIO"))
  /\ faults' = faults + 1
  /\ UNCHANGED << fs, args, pc, curPath, linkVal, junk, panicked, run, fs0, ops, handed, listed, again, ltIn, ltOut >>

\* the for loop of convert_dir ends and convert_dir returns
DirDone ==
  /\ pc = "next_entry"
  /\ stack # <<>>
  /\ Head(stack).rest = {}
  /\ stack' = Tail(stack)
  /\ pc' = AfterCall(Tail(stack))
  /\ UNCHANGED << fs, args, curPath, linkVal, junk, out, faults, panicked, run, fs0, ops, handed, listed, again, ltIn, ltOut >>

(* ---------------------------- convert_file ---------------------------- *)
\* line 68
TooBig(size, len) == size > len

\* lines 67-79: the return at line 78 closes the `if let Ok(metadata)`, not
\* the size test, so convert_file returns whenever the metadata is read
ReturnsAfterMetadata(ok, size, len) == ok

CfMetadata ==
  /\ pc = "cf_metadata"
  /\ \E fault \in FaultChoices, fault2 \in FaultChoices :
       LET n == Resolve(fs, curPath)
           ok == ~fault /\ n # NoNode
           size == IF ok THEN FileLen(fs, n) ELSE 0
           notice == ok /\ TooBig(size, args.len) /\ args.verbose
       IN \* the notice reads the metadata again and unwraps it (line 73)
          /\ fault2 => notice
          /\ faults' = Bump(fault \/ fault2)
          /\ panicked' = IF fault2 THEN "file_metadata" ELSE panicked
          /\ out' = IF notice /\ ~fault2
                      THEN Append(out, Msg("too big", curPath, <<>>, "", size, args.len))
                      ELSE out
          /\ pc' = IF fault2 THEN "panicked"
                   ELSE IF ReturnsAfterMetadata(ok, size, args.len) \/ notice
                     THEN AfterCall(stack)
                   ELSE "cf_read"
  /\ UNCHANGED << fs, args, stack, curPath, linkVal, junk, run, fs0, ops, handed, listed, again, ltIn, ltOut >>

\* lines 81-93: read the content, test the target, ask if --interactive
CfRead ==
  /\ pc = "cf_read"
  /\ \E fault \in FaultChoices :
       LET n == Resolve(fs, curPath)
           ok == ~fault /\ KindAt(fs, n) = "file"
           link == IF ok THEN fs[n].data ELSE <<>>
           found == ok /\ link_target_exists(fs, Parent(curPath), link)
       IN /\ faults' = Bump(fault)
          /\ linkVal' = IF found THEN link ELSE linkVal
          /\ junk' = 0
          /\ out' =
               IF ok /\ ~found /\ args.verbose
                 THEN Append(out, Msg("target does not exist", curPath, link, "", 0, 0))
               ELSE IF found /\ args.interactive
                 THEN Append(out, Msg("Convert?", curPath, link, "", 0, 0))
               ELSE out
          /\ pc' = IF ~found THEN AfterCall(stack)
                   ELSE IF args.interactive THEN "cf_ask"
                   ELSE "cf_remove"
  /\ UNCHANGED << fs, args, stack, curPath, panicked, run, fs0, ops, handed, listed, again, ltIn, ltOut >>

\* the bytes standard input may deliver; "q" stands for every byte that is
\* none of y, Y, n, N, the 0 the buffer holds after a failed or empty read
\* (lines 56-57) included
InputBytes == {"y", "Y", "n", "N", "q"}

AnswerDefaultYes(byte) ==
  IF byte \in {"n", "N"} THEN "abort" ELSE "proceed"

\* ask_for_confirmation, lines 58-62
Answer(byte) ==
  IF byte \in {"y", "Y"} THEN "proceed"
  ELSE IF byte \in {"n", "N"} THEN "abort"
  ELSE "again"

CfAsk ==
  /\ pc = "cf_ask"
  /\ \E byte \in InputBytes :
       LET ans == Answer(byte)
       IN /\ ans = "again" => junk < MaxJunk
          /\ junk' = IF ans = "again" THEN junk + 1 ELSE junk
          /\ out' = IF ans = "again"
                      THEN Append(out, Msg("y/n only please.", curPath, <<>>, "", 0, 0))
                      ELSE out
          /\ ops' = IF ans = "again" THEN ops ELSE Append(ops, Op("answer", curPath, ans = "proceed", byte))
          /\ pc' = IF ans = "proceed" THEN "cf_remove"
                   ELSE IF ans = "abort" THEN AfterCall(stack)
                   ELSE "cf_ask"
  /\ UNCHANGED << fs, args, stack, curPath, linkVal, faults, panicked, run, fs0, handed, listed, again, ltIn, ltOut >>

AfterRemoveChecked(ok) == IF ok THEN "cf_symlink" ELSE "return"

\* line 94: the result of remove_file is dropped
AfterRemove(ok) == "cf_symlink"

CfRemove ==
  /\ pc = "cf_remove"
  /\ \E fault \in FaultChoices :
       LET n == LNode(fs, curPath)
           ok == ~fault /\ KindAt(fs, n) \in {"file", "symlink", "other"}
       IN /\ faults' = Bump(fault)
          /\ fs' = IF ok THEN [fs EXCEPT ![n] = Absent] ELSE fs
          /\ ops' = Append(ops, Op("remove", curPath, ok, ""))
          /\ pc' = LET to == AfterRemove(ok)
                   IN IF to = "return" THEN AfterCall(stack) ELSE to
  /\ UNCHANGED << args, stack, curPath, linkVal, junk, out, panicked, run, fs0, handed, listed, again, ltIn, ltOut >>

\* symlink(2): why creating a link to `link` at node n fails, or "ok"
SymlinkError(f, n, link, fault) ==
  IF fault THEN "EIO"
  ELSE IF link = <<>> \/ n = NoNode \/ n \notin DOMAIN f THEN "ENOENT"
  ELSE IF f[n].kind # "none" THEN "EEXIST"
  ELSE "ok"

\* lines 101-107
ReportsConversion(silent) == ~silent

\* lines 96-107
CfSymlink ==
  /\ pc = "cf_symlink"
  /\ \E fault \in FaultChoices :
       LET n == LNode(fs, curPath)
           err == SymlinkError(fs, n, linkVal, fault)
           ok == err = "ok"
       IN /\ faults' = Bump(fault)
          /\ fs' = IF ok THEN [fs EXCEPT ![n] = Symlink(linkVal)] ELSE fs
          /\ ops' = Append(ops, Op("symlink", curPath, ok, ""))
          /\ out' = IF ~ok THEN Append(out, ErrorMsg(curPath, err))
                    ELSE IF ReportsConversion(args.silent)
                      THEN Append(out, Msg("Converted to symlink", curPath, linkVal, "", 0, 0))
                    ELSE out
          /\ pc' = AfterCall(stack)
  /\ UNCHANGED << args, stack, curPath, linkVal, junk, panicked, run, fs0, handed, listed, again, ltIn, ltOut >>

(* ---------------------------- specification --------------------------- *)
Next ==
  \/ Main
  \/ ReadDir
  \/ EntryOk
  \/ EntryErr
  \/ DirDone
  \/ CfMetadata
  \/ CfRead
  \/ CfAsk
  \/ CfRemove
  \/ CfSymlink

Spec == Init /\ [][Next]_vars

(* ------------------------ the program run again ----------------------- *)
\* The program is started again on the tree the last run left, with the same
\* arguments.
Rerun ==
  /\ pc = "done"
  /\ run < MaxRuns
  /\ run' = run + 1
  /\ pc' = "main"
  /\ out' = <<>>
  /\ UNCHANGED << fs, args, stack, curPath, linkVal, junk, faults, panicked,
                  fs0, ops, handed, listed, again, ltIn, ltOut >>

\* recursive, silent runs, interactive or not, on the root directory of the
\* tree that holds the target "a", the symlink s and the candidate l naming "a"
InitTwice ==
  \E tree \in InitialTrees, a \in ArgsSet :
    /\ tree[<<A>>].kind = "file" /\ tree[<<S>>].kind = "symlink"
    /\ tree[<<L>>].data = A
    /\ a.path = RootDir /\ a.recursive /\ a.silent
    /\ Start(tree, a, "main")

NextTwice == Next \/ Rerun

SpecTwice == InitTwice /\ [][NextTwice]_vars

(* ------------------- link_target_exists on its own -------------------- *)
LinkParents ==
  { <<>>, <<EmptyPath>>, <<RootDir>>, <<MkPath(FALSE, <<D>>)>>, <<MkPath(FALSE, <<S>>)>> }

LinkTexts ==
  Contents \cup { <<"/", "a">>, <<"l">>, <<"d", "/">>, <<"s", "/", "l">>, <<"l", "/">> }

LinkCall ==
  /\ pc = "link"
  /\ \E parent \in LinkParents, link \in LinkTexts :
       /\ ltIn' = [parent |-> parent, link |-> link]
       /\ ltOut' = link_target_exists(fs, parent, link)
  /\ pc' = "linked"
  /\ UNCHANGED << fs, args, stack, curPath, linkVal, junk, out, faults, panicked, run,
                  fs0, ops, handed, listed, again >>

InitLink ==
  \E tree \in InitialTrees :
    Start(tree, [path |-> RootDir, recursive |-> FALSE, silent |-> FALSE,
                 interactive |-> FALSE, len |-> 1, verbose |-> FALSE], "link")

SpecLink == InitLink /\ [][LinkCall]_vars

(* ============================ properties ============================== *)
CfPcs == {"cf_metadata", "cf_read", "cf_ask", "cf_remove", "cf_symlink"}

\* paths handed to convert_file in the current run
HandedPaths == { c.path : c \in { h \in handed : h.run = run } }

\* convert_file has returned for path p
Returned(p) == p \in HandedPaths /\ ~(pc \in CfPcs /\ curPath = p) /\ pc # "panicked"

\* the node path p named when the run started, and what it held
NodeOf(p) == LNode(fs0, p)
Original(p) == fs0[NodeOf(p)]

\* the content names an existing path, taken relative to the file's directory
\* or relative to the working directory
ContentIsPath(p) ==
  \/ Parent(p) # <<>> /\ Exists(fs0, JoinText(Parent(p)[1], Original(p).data))
  \/ Exists(fs0, ParsePath(Original(p).data))

Printed(m) == \E i \in DOMAIN out : out[i] = m

\* C1: every regular file no larger than --len whose content is an existing
\* path is, once convert_file has returned in non-interactive mode, a symlink
\* whose target is the original content, byte for byte.
C1_SmallValidFileBecomesSymlink ==
  \A p \in HandedPaths :
    ( /\ Returned(p)
      /\ ~args.interactive
      /\ Original(p).kind = "file"
      /\ Len(Original(p).data) <= args.len
      /\ ContentIsPath(p) )
    => fs[NodeOf(p)] = Symlink(Original(p).data)

\* C2: a file larger than --len that was handed to convert_file is never
\* removed or replaced: it stays the regular file it was.
C2_LargeFileUntouched ==
  \A p \in HandedPaths :
    ( Original(p).kind = "file" /\ Len(Original(p).data) > args.len )
    => fs[NodeOf(p)] = Original(p)

\* C3: a file whose content names no existing path is left as it was, and
\* with --verbose convert_file has printed the target-does-not-exist notice
\* by the time it returns.
C3_MissingTargetSkippedAndReported ==
  \A p \in HandedPaths :
    ( Original(p).kind = "file" /\ ~ContentIsPath(p) )
    => /\ fs[NodeOf(p)] = Original(p)
       /\ (Returned(p) /\ args.verbose)
            => Printed(Msg("target does not exist", p, Original(p).data, "", 0, 0))

\* C8: an error on a single directory entry never aborts the run while
\* entries of the directories being walked are still to be processed.
C8_EntryErrorDoesNotAbort ==
  ~( /\ panicked = "entry_metadata"
     /\ \E i \in DOMAIN stack : stack[i].rest # {} )

IsDirMsg == ErrorMsg(args.path, "Is a directory. Please specify 'recursive' flag")
RootIsDir == KindAt(fs0, Resolve(fs0, args.path)) = "dir"

\* C6: with a directory as root and --recursive unset the program prints
\* the is-a-directory error and stops normally: nothing is listed, visited,
\* removed or created.
C6_DirWithoutRecursiveStops ==
  (RootIsDir /\ ~args.recursive)
  => /\ pc \in {"main", "done"}
     /\ listed = {} /\ handed = {} /\ ops = <<>> /\ stack = <<>>
     /\ fs = fs0
     /\ panicked = "none"
     /\ pc = "main" => out = <<>>
     /\ pc = "done" => Len(out) = 1 /\ out[1].kind = "Cannot convert"
     /\ (pc = "done" /\ faults = 0) => out = <<IsDirMsg>>

\* C6 happens: a run on a directory without --recursive has ended with the
\* is-a-directory error and the tree as it was
C6_Witness ==
  RootIsDir /\ ~args.recursive /\ pc = "done" /\ out = <<IsDirMsg>> /\ fs = fs0

\* n lies below directory node r through real directories only
Under(r, n) ==
  /\ Len(n) > Len(r)
  /\ SubSeq(n, 1, Len(r)) = r
  /\ \A k \in (Len(r) + 1)..(Len(n) - 1) : KindAt(fs0, SubSeq(n, 1, k)) = "dir"

\* no listing failed: no error was printed about a directory being walked
NoListingError ==
  \A i \in DOMAIN out :
    ~( /\ out[i].kind = "Cannot convert"
       /\ out[i].reason = "EIO"
       /\ \E c \in listed : c.path = out[i].path )

\* C7: the walk hands no file to convert_file twice and lists no directory
\* twice, hands over and descends into nothing that is a symlink, and when it
\* ends without a listing error every regular file and every directory below
\* the root has been handed over, resp. listed.
C7_EachFileOnce ==
  /\ again = {}
  /\ \A c, e \in handed : c # e => NodeOf(c.path) # NodeOf(e.path)
  /\ \A c, e \in listed : c # e => Resolve(fs0, c.path) # Resolve(fs0, e.path)
  /\ \A c \in handed : c.path # args.path => Original(c.path).kind = "file"
  /\ \A c \in listed : c.path # args.path => Original(c.path).kind = "dir"
  /\ (pc = "done" /\ listed # {} /\ NoListingError)
     => \A n \in Nodes :
          Under(Resolve(fs0, args.path), n)
          => /\ fs0[n].kind = "file" => \E c \in handed : NodeOf(c.path) = n
             /\ fs0[n].kind = "dir" => \E c \in listed : Resolve(fs0, c.path) = n

\* C7 happens: a recursive walk of the root has ended after handing over
\* the three files and listing the two directories, with a symlink in the tree
C7_Witness ==
  /\ pc = "done"
  /\ args.path = RootDir
  /\ fs0[<<S>>].kind = "symlink"
  /\ Cardinality(handed) = 3
  /\ Cardinality(listed) = 2
  /\ NoListingError

OpsOn(p) == { i \in DOMAIN ops : ops[i].path = p }

\* what a conversion leaves at the path, given how its two calls ended
ConversionResult(p, removed, linked) ==
  IF linked THEN Symlink(Original(p).data)
  ELSE IF removed THEN Absent
  ELSE Original(p)

\* C5: in interactive mode only y/Y/n/N are accepted; after n/N the file is
\* as it was and nothing is called on it; after y/Y the conversion runs as in
\* non-interactive mode (remove, then symlink, with the same result); any
\* other byte leaves everything as it was and prompts again.
C5_InteractiveAnswer ==
  /\ \A i \in DOMAIN ops :
       ops[i].op = "answer"
       => /\ args.interactive
          /\ ops[i].byte \in {"y", "Y", "n", "N"}
          /\ ops[i].byte \in {"n", "N"}
             => /\ fs[NodeOf(ops[i].path)] = Original(ops[i].path)
                /\ \A j \in OpsOn(ops[i].path) : j <= i
          /\ ops[i].byte \in {"y", "Y"}
             => IF i = Len(ops)
                  THEN pc = "cf_remove" /\ curPath = ops[i].path
                  ELSE ops[i + 1].op = "remove" /\ ops[i + 1].path = ops[i].path
  /\ \A i \in DOMAIN ops :
       ops[i].op = "remove"
       => IF args.interactive
            THEN i > 1 /\ ops[i - 1].op = "answer" /\ ops[i - 1].path = ops[i].path
                 /\ ops[i - 1].byte \in {"y", "Y"}
            ELSE i = 1 \/ ops[i - 1].op = "symlink"
  /\ \A i \in DOMAIN ops :
       ops[i].op = "symlink"
       => /\ i > 1 /\ ops[i - 1].op = "remove" /\ ops[i - 1].path = ops[i].path
          /\ fs[NodeOf(ops[i].path)] = ConversionResult(ops[i].path, ops[i - 1].ok, ops[i].ok)
  /\ pc = "cf_ask"
     => /\ fs[NodeOf(curPath)] = Original(curPath)
        /\ OpsOn(curPath) = {}
        /\ Len(out) > junk
        /\ out[Len(out) - junk] = Msg("Convert?", curPath, linkVal, "", 0, 0)
        /\ \A k \in (Len(out) - junk + 1)..Len(out) :
             out[k] = Msg("y/n only please.", curPath, <<>>, "", 0, 0)

\* C5 happens: an interactive run re-prompted, then was answered Y and
\* converted the file
C5_Witness ==
  /\ args.interactive
  /\ pc = "done"
  /\ \E i \in DOMAIN ops :
       /\ ops[i].op = "answer" /\ ops[i].byte = "Y"
       /\ i + 2 <= Len(ops) /\ ops[i + 2].op = "symlink" /\ ops[i + 2].ok
       /\ fs[NodeOf(ops[i].path)] = Symlink(Original(ops[i].path).data)
  /\ \E k \in DOMAIN out : out[k].kind = "y/n only please."

\* C10: a conversion calls remove_file and then symlink, also when the
\* removal failed.  When symlink fails the error is printed with its reason,
\* nothing more is done to the file, the path holds no symlink (nothing, if
\* the removal succeeded) and no conversion is reported; when it succeeds the
\* conversion is reported unless --silent.
C10_RemoveThenSymlink ==
  /\ \A i \in DOMAIN ops :
       ops[i].op = "symlink"
       => i > 1 /\ ops[i - 1].op = "remove" /\ ops[i - 1].path = ops[i].path
  /\ \A i \in DOMAIN ops :
       ops[i].op = "remove"
       => IF i = Len(ops)
            THEN pc = "cf_symlink" /\ curPath = ops[i].path
            ELSE ops[i + 1].op = "symlink" /\ ops[i + 1].path = ops[i].path
  /\ \A i \in DOMAIN ops :
       (ops[i].op = "symlink" /\ i > 1)
       => LET p == ops[i].path
              converted == Msg("Converted to symlink", p, Original(p).data, "", 0, 0)
          IN /\ \A j \in OpsOn(p) : j <= i
             /\ ~(pc \in CfPcs /\ curPath = p)
             /\ IF ops[i].ok
                  THEN /\ fs[NodeOf(p)] = Symlink(Original(p).data)
                       /\ Printed(converted) <=> ~args.silent
                  ELSE /\ \E r \in {"EIO", "ENOENT", "EEXIST"} : Printed(ErrorMsg(p, r))
                       /\ ~Printed(converted)
                       /\ fs[NodeOf(p)] = IF ops[i - 1].ok THEN Absent ELSE Original(p)

\* C10 happens: the file was removed, symlink failed, and the path is empty
C10_Witness ==
  /\ pc = "done"
  /\ \E i \in DOMAIN ops :
       /\ ops[i].op = "symlink" /\ ~ops[i].ok
       /\ i > 1 /\ ops[i - 1].ok
       /\ fs[NodeOf(ops[i].path)] = Absent
       /\ Original(ops[i].path).kind = "file"

C9_JoinedOrWorkingDirectory ==
  (pc = "linked" /\ ltIn.parent # <<>>)
  => ( ( \/ Exists(fs, JoinText(ltIn.parent[1], ltIn.link))
         \/ Exists(fs, ParsePath(ltIn.link)) )
       => ltOut )

\* the directory a content is looked up from
LookupDir(parent, link) ==
  IF parent = <<>> \/ ParsePath(link).abs \/ parent[1] = EmptyPath
    THEN <<>>
    ELSE Resolve(fs, parent[1])

\* C9 as amended: a content is accepted exactly if it names something when
\* looked up from the file's parent directory (from the root if the content
\* is absolute, from the working directory if the parent is empty or there
\* is none); an empty content names the parent directory itself.
C9_LookedUpFromParent ==
  pc = "linked"
  => LET parent == ltIn.parent
         link == ltIn.link
         from == LookupDir(parent, link)
     IN ltOut <=>
          IF link = <<>>
            THEN parent # <<>> /\ parent[1] # EmptyPath /\ KindAt(fs, from) = "dir"
            ELSE /\ KindAt(fs, from) = "dir"
                 /\ Walk(fs, from, ParsePath(link).comps, MaxFollow) # NoNode

\* C9 happens: for a file in d, the content "a" exists in the working
\* directory but not in d, and the check rejects it
C9_Witness ==
  /\ pc = "linked"
  /\ ltIn = [parent |-> <<MkPath(FALSE, <<D>>)>>, link |-> <<"a">>]
  /\ fs[<<A>>].kind = "file"
  /\ ~ltOut

====
